---- MODULE Spec2Model ----
(***************************************************************************)
(* Model of app.py: the FastAPI bridge that forwards POST /api/ollama to   *)
(* a local Ollama server (forward_to_ollama) and consolidates the reply    *)
(* (call_ollama).                                                          *)
(*                                                                         *)
(* Text is modelled at the level of lexemes: an upstream body is a         *)
(* sequence of lexemes, each standing for a fixed character string (see    *)
(* Lex).  Splitting into lines, trimming and JSON parsing are computed on  *)
(* the lexeme sequence; Python strings handed on to the caller are TLA+    *)
(* strings obtained by concatenating the lexemes' characters.              *)
(*                                                                         *)
(* An Optional[T] field is a sequence: <<>> is None, <<v>> is the value v. *)
(***************************************************************************)
EXTENDS Integers, Sequences, FiniteSets, TLC

\* ------------------------------------------------------------------ bounds

\* Number of requests handled concurrently.
NumRequests == 2
\* Largest number of newline-separated chunks of a modelled upstream body.
MaxLines == 3

\* ----------------------------------------------------------------- lexemes

Whitespace == {"SP", "NL"}
Digits == {"D0", "D7"}
StringLexemes == {"SA", "SB", "SE"}
KeyLexemes == {"KR", "KT", "KD"}

\* The characters a lexeme stands for.
Lex(tok) ==
  CASE tok = "LB" -> "{"
    [] tok = "RB" -> "}"
    [] tok = "CM" -> ","
    [] tok = "KR" -> "\"response\":"
    [] tok = "KT" -> "\"text\":"
    [] tok = "KD" -> "\"done\":"
    [] tok = "SA" -> "\"Hel\""
    [] tok = "SB" -> "\"lo\""
    [] tok = "SE" -> "\"\""
    [] tok = "D0" -> "0"
    [] tok = "D7" -> "7"
    [] tok = "TR" -> "true"
    [] tok = "NU" -> "null"
    [] tok = "XX" -> "plain"
    [] tok = "SP" -> " "
    [] tok = "NL" -> "\n"

\* The Python string a lexeme sequence is (resp.text, a line of it).
RECURSIVE Text(_)
Text(toks) ==
  IF toks = <<>> THEN "" ELSE Lex(Head(toks)) \o Text(Tail(toks))

\* The key a key lexeme names, and the content of a string lexeme.
KeyName(tok) ==
  CASE tok = "KR" -> "response"
    [] tok = "KT" -> "text"
    [] tok = "KD" -> "done"

StringContent(tok) ==
  CASE tok = "SA" -> "Hel"
    [] tok = "SB" -> "lo"
    [] tok = "SE" -> ""

\* ------------------------------------------------------- Python / JSON values

\* A parsed JSON value as Python holds it.  t is the Python type; s holds a
\* str's characters, an int's digits or a bool's literal; m holds a dict's
\* items, in insertion order, as records [k, v].
JNone == [t |-> "none", s |-> "", m |-> <<>>]
JStr(s) == [t |-> "str", s |-> s, m |-> <<>>]
JInt(digits) == [t |-> "int", s |-> digits, m |-> <<>>]
JBool(lit) == [t |-> "bool", s |-> lit, m |-> <<>>]
JDict(items) == [t |-> "dict", s |-> "", m |-> items]

\* Python truthiness (`if x:`).
Truthy(v) ==
  CASE v.t = "none" -> FALSE
    [] v.t = "str" -> v.s # ""
    [] v.t = "int" -> v.s # "0"
    [] v.t = "bool" -> v.s = "true"
    [] v.t = "dict" -> v.m # <<>>

\* `key in obj` and `obj[key]` of a dict.
HasKey(obj, key) == \E i \in 1..Len(obj.m) : obj.m[i].k = key
GetKey(obj, key) == obj.m[CHOOSE i \in 1..Len(obj.m) : obj.m[i].k = key].v

\* dict item assignment: an existing key keeps its position.
SetKey(items, key, val) ==
  IF \E i \in 1..Len(items) : items[i].k = key
  THEN [i \in 1..Len(items) |->
          IF items[i].k = key THEN [k |-> key, v |-> val] ELSE items[i]]
  ELSE Append(items, [k |-> key, v |-> val])

\* Python repr() and str().
RECURSIVE PyRepr(_)
RECURSIVE PyReprItems(_)
PyReprItems(items) ==
  IF items = <<>> THEN ""
  ELSE "'" \o Head(items).k \o "': " \o PyRepr(Head(items).v)
       \o (IF Tail(items) = <<>> THEN "" ELSE ", ")
       \o PyReprItems(Tail(items))
PyRepr(v) ==
  CASE v.t = "none" -> "None"
    [] v.t = "str" -> "'" \o v.s \o "'"
    [] v.t = "int" -> v.s
    [] v.t = "bool" -> IF v.s = "true" THEN "True" ELSE "False"
    [] v.t = "dict" -> "{" \o PyReprItems(v.m) \o "}"

Str(v) == IF v.t = "str" THEN v.s ELSE PyRepr(v)

\* ------------------------------------------------------------- json.loads

RECURSIVE SkipWs(_)
SkipWs(toks) ==
  IF toks # <<>> /\ Head(toks) \in Whitespace THEN SkipWs(Tail(toks)) ELSE toks

\* The longest run of digits at the front of toks.
RECURSIVE DigitRun(_)
DigitRun(toks) ==
  IF toks # <<>> /\ Head(toks) \in Digits
  THEN <<Head(toks)>> \o DigitRun(Tail(toks))
  ELSE <<>>

ParseFail == [ok |-> FALSE, val |-> JNone, rest |-> <<>>]

\* One JSON value at the front of toks (no leading whitespace).
RECURSIVE ParseValue(_)
RECURSIVE ParseMembers(_, _)
ParseMembers(toks, items) ==
  IF toks = <<>> \/ Head(toks) \notin KeyLexemes THEN ParseFail
  ELSE LET val == ParseValue(SkipWs(Tail(toks)))
           after == SkipWs(val.rest)
           items2 == SetKey(items, KeyName(Head(toks)), val.val)
       IN IF ~val.ok \/ after = <<>> THEN ParseFail
          ELSE IF Head(after) = "RB"
               THEN [ok |-> TRUE, val |-> JDict(items2), rest |-> Tail(after)]
          ELSE IF Head(after) = "CM"
               THEN ParseMembers(SkipWs(Tail(after)), items2)
          ELSE ParseFail
ParseValue(toks) ==
  IF toks = <<>> THEN ParseFail
  ELSE LET tok == Head(toks) IN
    CASE tok \in StringLexemes ->
           [ok |-> TRUE, val |-> JStr(StringContent(tok)), rest |-> Tail(toks)]
      [] tok \in Digits ->
           LET run == DigitRun(toks) IN
           IF Len(run) > 1 /\ tok = "D0" THEN ParseFail
           ELSE [ok |-> TRUE, val |-> JInt(Text(run)),
                 rest |-> SubSeq(toks, Len(run) + 1, Len(toks))]
      [] tok = "TR" -> [ok |-> TRUE, val |-> JBool("true"), rest |-> Tail(toks)]
      [] tok = "NU" -> [ok |-> TRUE, val |-> JNone, rest |-> Tail(toks)]
      [] tok = "LB" ->
           LET inner == SkipWs(Tail(toks)) IN
           IF inner # <<>> /\ Head(inner) = "RB"
           THEN [ok |-> TRUE, val |-> JDict(<<>>), rest |-> Tail(inner)]
           ELSE ParseMembers(inner, <<>>)
      [] OTHER -> ParseFail

\* json.loads(text) / resp.json(): ok is FALSE where Python raises.
JsonLoads(toks) ==
  LET r == ParseValue(SkipWs(toks)) IN
  IF r.ok /\ SkipWs(r.rest) = <<>>
  THEN [ok |-> TRUE, val |-> r.val]
  ELSE [ok |-> FALSE, val |-> JNone]

\* ------------------------------------------------- str.splitlines, str.strip

\* text.splitlines(): split at each newline; no empty last line.
RECURSIVE SplitFrom(_, _)
SplitFrom(toks, cur) ==
  IF toks = <<>> THEN (IF cur = <<>> THEN <<>> ELSE <<cur>>)
  ELSE IF Head(toks) = "NL" THEN <<cur>> \o SplitFrom(Tail(toks), <<>>)
  ELSE SplitFrom(Tail(toks), Append(cur, Head(toks)))
SplitLines(toks) == SplitFrom(toks, <<>>)

RECURSIVE RStrip(_)
RStrip(toks) ==
  IF toks # <<>> /\ toks[Len(toks)] \in Whitespace
  THEN RStrip(SubSeq(toks, 1, Len(toks) - 1))
  ELSE toks
Strip(toks) == RStrip(SkipWs(toks))

\* [l.strip() for l in text.splitlines() if l.strip()]
RECURSIVE StripNonEmpty(_)
StripNonEmpty(ls) ==
  IF ls = <<>> THEN <<>>
  ELSE (IF Strip(Head(ls)) # <<>> THEN <<Strip(Head(ls))>> ELSE <<>>)
       \o StripNonEmpty(Tail(ls))
Lines(toks) == StripNonEmpty(SplitLines(toks))

\* ------------------------------------------------------------ configuration

\* The candidate values of DEFAULT_OLLAMA_URL: the built-in default and one
\* set through the OLLAMA_URL environment variable.
BuiltinUrl == "http://localhost:11434/api/generate"
OverrideUrl == "http://ollama.internal:8000/api/generate"

WEBSITE_CONTEXT == "\nKEY FACTS ABOUT LINDOKUHLE: ...\n"

\* ----------------------------------------------------------- OllamaRequest

None == <<>>
Some(v) == <<v>>

UserMessage == [role |-> "user", content |-> "Hi"]

\* The fields' declared defaults.
OllamaRequest(prompt, model, max_tokens, temperature, messages) ==
  [prompt |-> prompt, model |-> model, max_tokens |-> max_tokens,
   temperature |-> temperature, messages |-> messages]

DefaultModel == Some("gemma3:270m")
DefaultMaxTokens == Some(512)
DefaultTemperature == Some("0.7")

\* Truthiness of an Optional field: None is falsy, and so is the empty or
\* zero value `empty` of its type.
TruthyOpt(field, empty) == field # None /\ field[1] # empty

\* ------------------------------------------------------ forward_to_ollama

\* (mutant) rejects only when both fields are None.
RejectsNoneOnly(rq) == rq.prompt = None /\ rq.messages = None

\* `not req.prompt and not req.messages`
Rejects(rq) == ~TruthyOpt(rq.prompt, "") /\ ~TruthyOpt(rq.messages, <<>>)

BadRequest ==
  [status |-> 400, detail |-> "Provide a 'prompt' string or 'messages' list."]

\* The f-string: the fixed rules, the website context and the user's prompt
\* ({req.prompt} formats None as "None").
TemplateHead ==
  "You are an AI assistant for Lindokuhle's portfolio. ... KEY FACTS:\n"
  \o WEBSITE_CONTEXT
  \o " ... \nUser question: "
TemplateTail == "\n\nYour task is to analyze the user's question ...\n"
enhanced_prompt(rq) ==
  TemplateHead \o (IF rq.prompt = None THEN "None" ELSE rq.prompt[1]) \o TemplateTail

\* (mutant) always sends the prompt, and the messages beside it.
BuildPayloadBoth(rq) ==
  LET base == ("prompt" :> enhanced_prompt(rq)) @@ ("model" :> rq.model)
      withMode == IF TruthyOpt(rq.messages, <<>>)
                  THEN ("messages" :> rq.messages[1]) @@ base
                  ELSE base
  IN IF TruthyOpt(rq.max_tokens, 0)
     THEN ("max_tokens" :> rq.max_tokens[1]) @@ withMode
     ELSE withMode

\* The dict sent upstream, as a function on its keys.
BuildPayload(rq) ==
  LET base == "model" :> rq.model
      mode == IF TruthyOpt(rq.messages, <<>>)
              THEN "messages" :> rq.messages[1]
              ELSE "prompt" :> enhanced_prompt(rq)
      withMode == mode @@ base
  IN IF TruthyOpt(rq.max_tokens, 0)
     THEN ("max_tokens" :> rq.max_tokens[1]) @@ withMode
     ELSE withMode

\* The timeout forward_to_ollama passes to call_ollama.
CallTimeout == 30

\* (mutant) returns the consolidated result without the envelope.
SuccessResponseBare(result) == [status |-> 200, body |-> result]

\* `return {"ok": True, "ollama": result}`, sent with status 200.
SuccessResponse(result) ==
  [status |-> 200, body |-> [ok |-> TRUE, ollama |-> result]]

\* An HTTPException raised in the handler, as FastAPI answers it.
ErrorResponse(exc) == [status |-> exc.status_code, detail |-> exc.detail]

\* ------------------------------------------------------------ call_ollama

\* What `await client.post(...)` ends with: one of httpx's request errors,
\* or a response with a status code and a body.
RequestErrors == {"ConnectError", "ConnectTimeout", "ReadTimeout", "UnsupportedProtocol"}
\* (mutant) catches connect timeouts with the connection errors.
IsConnectErrorOrTimeout(kind) == kind \in {"ConnectError", "ConnectTimeout"}
IsConnectError(kind) == kind = "ConnectError"
IsRequestError(kind) == kind \in RequestErrors

ErrorReply(kind, msg) ==
  [kind |-> kind, status_code |-> 0, body |-> <<>>, err |-> msg]
HttpReply(code, body) ==
  [kind |-> "response", status_code |-> code, body |-> body, err |-> ""]

Raise(code, detail) == [raised |-> TRUE, status_code |-> code, detail |-> detail]
Return(value) == [raised |-> FALSE, value |-> value]

\* The except clauses around client.post.
PostError(url, rp) ==
  IF IsConnectError(rp.kind)
  THEN Raise(503, "Cannot connect to Ollama at " \o url \o ". Is Ollama running?")
  ELSE Raise(502, "Ollama request error: " \o rp.err)

\* (mutant) treats only 4xx and 5xx as errors.
BadStatusFrom400(rp) == rp.status_code >= 400

\* `if resp.status_code != 200`
BadStatus(rp) == rp.status_code # 200

\* The 502 raised for a bad status: Ollama's JSON error when the body is
\* JSON, else the status code and the text.
StatusError(rp) ==
  LET data == IF JsonLoads(rp.body).ok
              THEN JsonLoads(rp.body).val
              ELSE [status_code |-> rp.status_code, text |-> Text(rp.body)]
  IN Raise(502, [ollama_response |-> data])

\* (mutant) an empty `response` no longer falls through to `text`.
CollectLineResponseOnly(st, line) ==
  LET p == JsonLoads(line)
      obj == p.val
  IN IF ~p.ok THEN st
     ELSE IF obj.t = "dict" /\ HasKey(obj, "response")
          THEN [collected |-> IF Truthy(GetKey(obj, "response"))
                              THEN Append(st.collected, Str(GetKey(obj, "response")))
                              ELSE st.collected,
                last_obj |-> obj]
     ELSE IF obj.t = "dict" /\ HasKey(obj, "text") /\ Truthy(GetKey(obj, "text"))
          THEN [collected |-> Append(st.collected, Str(GetKey(obj, "text"))),
                last_obj |-> obj]
     ELSE [collected |-> st.collected, last_obj |-> obj]

\* One iteration of `for line in lines`: st is [collected, last_obj].
CollectLine(st, line) ==
  LET p == JsonLoads(line)
      obj == p.val
  IN IF ~p.ok THEN st
     ELSE IF obj.t = "dict" /\ HasKey(obj, "response") /\ Truthy(GetKey(obj, "response"))
          THEN [collected |-> Append(st.collected, Str(GetKey(obj, "response"))),
                last_obj |-> obj]
     ELSE IF obj.t = "dict" /\ HasKey(obj, "text") /\ Truthy(GetKey(obj, "text"))
          THEN [collected |-> Append(st.collected, Str(GetKey(obj, "text"))),
                last_obj |-> obj]
     ELSE [collected |-> st.collected, last_obj |-> obj]

RECURSIVE CollectLines(_, _)
CollectLines(st, ls) ==
  IF ls = <<>> THEN st ELSE CollectLines(CollectLine(st, Head(ls)), Tail(ls))

\* ''.join(collected)
RECURSIVE Join(_)
Join(strs) == IF strs = <<>> THEN "" ELSE Head(strs) \o Join(Tail(strs))

RawLines(ls) == [i \in 1..Len(ls) |-> Text(ls[i])]

\* `if last_obj: result["last"] = last_obj`
AttachLast(result, last_obj) ==
  IF Truthy(last_obj)
  THEN [text |-> result.text, raw_lines |-> result.raw_lines, last |-> last_obj]
  ELSE result

\* The NDJSON branch (len(lines) > 1).
NormalizeLines(ls) ==
  LET st == CollectLines([collected |-> <<>>, last_obj |-> JNone], ls)
      result == [text |-> Join(st.collected), raw_lines |-> RawLines(ls)]
  IN AttachLast(result, st.last_obj)

\* (mutant) falls back to the trimmed text.
NormalizeSingleStripped(body) ==
  IF JsonLoads(body).ok THEN JsonLoads(body).val ELSE [text |-> Text(Strip(body))]

\* The single JSON or plain text branch.
NormalizeSingle(body) ==
  IF JsonLoads(body).ok THEN JsonLoads(body).val ELSE [text |-> Text(body)]

\* (mutant) off by one: a single line is treated as NDJSON.
IsMultiLineFromOne(ls) == Len(ls) >= 1
\* `if len(lines) > 1`
IsMultiLine(ls) == Len(ls) > 1

Normalize(body) ==
  IF IsMultiLine(Lines(body)) THEN NormalizeLines(Lines(body)) ELSE NormalizeSingle(body)

call_ollama(url, rp) ==
  IF IsRequestError(rp.kind) THEN PostError(url, rp)
  ELSE IF BadStatus(rp) THEN StatusError(rp)
  ELSE Return(Normalize(rp.body))

\* forward_to_ollama from the return of call_ollama on.
Respond(url, rp) ==
  LET r == call_ollama(url, rp) IN
  IF r.raised THEN ErrorResponse(r) ELSE SuccessResponse(r.value)

\* ------------------------------------------------------------------ state

Requests == 1..NumRequests

VARIABLES
  DEFAULT_OLLAMA_URL,  \* the module-level upstream URL, read once at start
  pc,                  \* per request: where its handler stands
  req,                 \* per request: the OllamaRequest received
  posted,              \* per request: the POSTs made to the upstream, in order
  reply,               \* per request: what its client.post ended with
  response             \* per request: the response sent to the caller

vars == <<DEFAULT_OLLAMA_URL, pc, req, posted, reply, response>>

NoRequest == OllamaRequest(None, None, None, None, None)
NoReply == ErrorReply("none", "")
NoResponse == [status |-> 0]

InitWith(urls) ==
  /\ DEFAULT_OLLAMA_URL \in urls
  /\ pc = [r \in Requests |-> "idle"]
  /\ req = [r \in Requests |-> NoRequest]
  /\ posted = [r \in Requests |-> <<>>]
  /\ reply = [r \in Requests |-> NoReply]
  /\ response = [r \in Requests |-> NoResponse]

\* forward_to_ollama, a request of rqs arriving, rejected before any call.
ForwardReject(r, rqs) ==
  /\ pc[r] = "idle"
  /\ \E rq \in rqs :
       /\ Rejects(rq)
       /\ req' = [req EXCEPT ![r] = rq]
  /\ response' = [response EXCEPT ![r] = BadRequest]
  /\ pc' = [pc EXCEPT ![r] = "done"]
  /\ UNCHANGED <<DEFAULT_OLLAMA_URL, posted, reply>>

\* forward_to_ollama, a request of rqs arriving, up to the await of
\* client.post.
ForwardCall(r, rqs) ==
  /\ pc[r] = "idle"
  /\ \E rq \in rqs :
       /\ ~Rejects(rq)
       /\ req' = [req EXCEPT ![r] = rq]
       /\ posted' = [posted EXCEPT ![r] =
            Append(@, [url |-> DEFAULT_OLLAMA_URL, json |-> BuildPayload(rq),
                       timeout |-> CallTimeout])]
  /\ pc' = [pc EXCEPT ![r] = "awaiting"]
  /\ UNCHANGED <<DEFAULT_OLLAMA_URL, reply, response>>

\* The upstream (or the transport) ends the pending POST of request r with
\* one of rps.
UpstreamAnswer(r, rps) ==
  /\ pc[r] = "awaiting"
  /\ \E rp \in rps : reply' = [reply EXCEPT ![r] = rp]
  /\ pc' = [pc EXCEPT ![r] = "replied"]
  /\ UNCHANGED <<DEFAULT_OLLAMA_URL, req, posted, response>>

\* (mutant) a failed POST is retried instead of being answered.
CallReturnRetry(r) ==
  /\ pc[r] = "replied"
  /\ IF IsRequestError(reply[r].kind)
     THEN /\ posted' = [posted EXCEPT ![r] = Append(@, posted[r][1])]
          /\ pc' = [pc EXCEPT ![r] = "awaiting"]
          /\ UNCHANGED response
     ELSE /\ response' = [response EXCEPT ![r] = Respond(DEFAULT_OLLAMA_URL, reply[r])]
          /\ pc' = [pc EXCEPT ![r] = "done"]
          /\ UNCHANGED posted
  /\ UNCHANGED <<DEFAULT_OLLAMA_URL, req, reply>>

\* call_ollama resumes after the await and forward_to_ollama answers.
CallReturn(r) ==
  /\ pc[r] = "replied"
  /\ response' = [response EXCEPT ![r] = Respond(DEFAULT_OLLAMA_URL, reply[r])]
  /\ pc' = [pc EXCEPT ![r] = "done"]
  /\ UNCHANGED <<DEFAULT_OLLAMA_URL, req, posted, reply>>

\* ----------------------------------------------------------------- inputs

\* Every combination of the fields' absent, empty and filled values.
AllRequests ==
  { OllamaRequest(p, mo, mt, te, ms) :
      p \in {None, Some(""), Some("Hello")},
      mo \in {DefaultModel, Some("my-model")},
      mt \in {None, Some(0), DefaultMaxTokens},
      te \in {None, DefaultTemperature},
      ms \in {None, Some(<<>>), Some(<<UserMessage>>)} }

FewRequests ==
  { OllamaRequest(Some("Hello"), DefaultModel, DefaultMaxTokens, DefaultTemperature, None),
    OllamaRequest(Some("Hello"), Some("chat-model"), None, DefaultTemperature, Some(<<UserMessage>>)),
    OllamaRequest(None, DefaultModel, DefaultMaxTokens, DefaultTemperature, None) }

\* The chunks a modelled body is made of, joined by newlines.
Chunks ==
  { <<>>,
    <<"SP">>,
    <<"XX">>,
    <<"LB", "KR", "SA", "RB">>,
    <<"LB", "KR", "SB", "RB">>,
    <<"SP", "LB", "KR", "SB", "RB", "SP">>,
    <<"LB", "KT", "SB", "RB">>,
    <<"LB", "KR", "SE", "CM", "KT", "SA", "RB">>,
    <<"LB", "KR", "D7", "CM", "KT", "SB", "RB">>,
    <<"LB", "KD", "TR", "RB">>,
    <<"LB", "RB">>,
    <<"D0">>,
    <<"NU">>,
    <<"LB", "KR">>,
    <<"SA", "RB">> }

RECURSIVE JoinChunks(_)
JoinChunks(cs) ==
  IF cs = <<>> THEN <<>>
  ELSE IF Len(cs) = 1 THEN cs[1]
  ELSE cs[1] \o <<"NL">> \o JoinChunks(Tail(cs))

AllBodies ==
  { JoinChunks(cs) : cs \in UNION { [1..n -> Chunks] : n \in 0..MaxLines } }

\* One request the handler accepts and one it rejects.
TwoRequests ==
  { OllamaRequest(Some("Hello"), DefaultModel, DefaultMaxTokens, DefaultTemperature, None),
    OllamaRequest(None, DefaultModel, DefaultMaxTokens, DefaultTemperature, None) }

FewBodies ==
  { <<"LB", "KR", "SA", "RB">>,
    <<"LB", "KR", "SA", "RB", "NL", "LB", "KR", "SB", "RB">>,
    <<"XX">> }

ErrorBodies == { <<"LB", "KR", "SA", "RB">>, <<"XX">>, <<>> }

ErrorReplies ==
  { ErrorReply("ConnectError", "All connection attempts failed"),
    ErrorReply("ConnectTimeout", ""),
    ErrorReply("ReadTimeout", ""),
    ErrorReply("UnsupportedProtocol", "Request URL is missing an 'http://' or 'https://' protocol.") }

BadStatusReplies == { HttpReply(code, b) : code \in {201, 404, 500}, b \in ErrorBodies }

FewReplies ==
  ErrorReplies \cup BadStatusReplies \cup { HttpReply(200, b) : b \in FewBodies }

AllReplies ==
  ErrorReplies \cup BadStatusReplies \cup { HttpReply(200, b) : b \in AllBodies }

\* ---------------------------------------------------------- specifications

\* Concurrent requests.
Init == InitWith({BuiltinUrl})
Next ==
  \E r \in Requests :
    \/ ForwardReject(r, FewRequests)
    \/ ForwardCall(r, FewRequests)
    \/ UpstreamAnswer(r, FewReplies)
    \/ CallReturn(r)
Spec == Init /\ [][Next]_vars

\* One request, over every request shape and both configurations.
InitPayload == InitWith({BuiltinUrl, OverrideUrl})
NextPayload ==
  \/ ForwardReject(1, AllRequests)
  \/ ForwardCall(1, AllRequests)
  \/ UpstreamAnswer(1, FewReplies)
  \/ CallReturn(1)
SpecPayload == InitPayload /\ [][NextPayload]_vars

\* One request, over every upstream body.
InitNormalize == InitWith({BuiltinUrl})
NextNormalize ==
  \/ ForwardReject(1, TwoRequests)
  \/ ForwardCall(1, TwoRequests)
  \/ UpstreamAnswer(1, AllReplies)
  \/ CallReturn(1)
SpecNormalize == InitNormalize /\ [][NextNormalize]_vars

\* ------------------------------------------------------------- properties

Answered(r) == pc[r] = "done"
GotResponse(r) == Answered(r) /\ reply[r].kind = "response"
\* The upstream call succeeded: a response with status 200.
GotSuccess(r) == GotResponse(r) /\ reply[r].status_code = 200
\* The value call_ollama returned to forward_to_ollama.
ResultOf(r) == response[r].body.ollama

Absent(field, empty) == field = None \/ field = Some(empty)

\* C1: a request whose prompt is absent or empty and whose messages is absent
\* or empty is answered 400 and causes no POST to the upstream.
C1_RejectedWithoutCall ==
  \A r \in Requests :
    (pc[r] # "idle" /\ Absent(req[r].prompt, "") /\ Absent(req[r].messages, <<>>))
      => /\ Answered(r)
         /\ response[r].status = 400
         /\ posted[r] = <<>>

C1_Witness ==
  \E r \in Requests :
    /\ Answered(r)
    /\ req[r].prompt = Some("")
    /\ req[r].messages = Some(<<>>)
    /\ response[r] = BadRequest
    /\ posted[r] = <<>>

\* C2 as stated: after a successful upstream call the caller receives
\* {ok: true, result: N}, N the normalized upstream body under the key
\* `result`.
C2_ResultKey ==
  \A r \in Requests :
    GotSuccess(r)
      => /\ response[r].status = 200
         /\ DOMAIN response[r].body = {"ok", "result"}
         /\ response[r].body.ok = TRUE
         /\ response[r].body.result = Normalize(reply[r].body)

\* C2 amended: after a successful upstream call the caller receives
\* {ok: true, ollama: N}: the normalized upstream body is carried under the
\* key `ollama`.
C2_OllamaKey ==
  \A r \in Requests :
    GotSuccess(r)
      => /\ response[r].status = 200
         /\ DOMAIN response[r].body = {"ok", "ollama"}
         /\ response[r].body.ok = TRUE
         /\ response[r].body.ollama = Normalize(reply[r].body)

C2_Witness ==
  \E r \in Requests :
    /\ GotSuccess(r)
    /\ reply[r].body = <<"LB", "KR", "SA", "RB", "NL", "LB", "KR", "SB", "RB">>
    /\ response[r].body.ok = TRUE
    /\ response[r].body.ollama.text = "Hello"

\* The fixed text call_ollama puts around the URL in its 503 detail.
DetailAffixes == {"", "Cannot connect to Ollama at ", ". Is Ollama running?"}
Mentions(detail, url) ==
  \E pre \in DetailAffixes, post \in DetailAffixes : detail = pre \o url \o post

EmbedsUpstream(detail, rp) ==
  IF JsonLoads(rp.body).ok
  THEN detail = [ollama_response |-> JsonLoads(rp.body).val]
  ELSE detail = [ollama_response |->
                   [status_code |-> rp.status_code, text |-> Text(rp.body)]]

\* HTTP's success statuses.
IsSuccessStatus(code) == code \in 200..299

\* C4 as stated: an upstream response with a non-success status is answered
\* 502 embedding the upstream body; one with a success status raises no
\* error and is normalized.
C4_SuccessStatusNormalized ==
  \A r \in Requests :
    GotResponse(r)
      => IF IsSuccessStatus(reply[r].status_code)
         THEN /\ response[r].status = 200
              /\ ResultOf(r) = Normalize(reply[r].body)
         ELSE /\ response[r].status = 502
              /\ EmbedsUpstream(response[r].detail, reply[r])

\* C4 amended: an upstream response with any status other than 200 is
\* answered 502 embedding the upstream body (as JSON when it parses, else
\* status code and text); one with status 200 raises no error and is
\* normalized.
C4_Only200Normalized ==
  \A r \in Requests :
    GotResponse(r)
      => IF reply[r].status_code = 200
         THEN /\ response[r].status = 200
              /\ ResultOf(r) = Normalize(reply[r].body)
         ELSE /\ response[r].status = 502
              /\ EmbedsUpstream(response[r].detail, reply[r])

C4_Witness ==
  \E r \in Requests :
    /\ GotResponse(r)
    /\ reply[r].status_code = 201
    /\ reply[r].body = <<"LB", "KR", "SA", "RB">>
    /\ response[r].status = 502
    /\ response[r].detail =
         [ollama_response |-> JDict(<<[k |-> "response", v |-> JStr("Hel")]>>)]

\* What one line adds to the text: the string form of its non-empty
\* `response`, else of its non-empty `text`, else nothing.
Contribution(line) ==
  LET p == JsonLoads(line) IN
  IF ~p.ok \/ p.val.t # "dict" THEN ""
  ELSE IF HasKey(p.val, "response") /\ Truthy(GetKey(p.val, "response"))
       THEN Str(GetKey(p.val, "response"))
  ELSE IF HasKey(p.val, "text") /\ Truthy(GetKey(p.val, "text"))
       THEN Str(GetKey(p.val, "text"))
  ELSE ""

RECURSIVE Contributions(_)
Contributions(ls) ==
  IF ls = <<>> THEN "" ELSE Contribution(Head(ls)) \o Contributions(Tail(ls))

\* The request got a 200 body of more than one non-empty trimmed line.
MultiLineCase(r) == GotSuccess(r) /\ Len(Lines(reply[r].body)) > 1
SingleLineCase(r) == GotSuccess(r) /\ Len(Lines(reply[r].body)) <= 1

\* C5: for a 200 body of more than one non-empty trimmed line the request
\* succeeds, text is the concatenation in line order of each parsed line's
\* contribution (unparseable lines add nothing), and raw_lines is every
\* non-empty trimmed line.
C5_MultiLineText ==
  \A r \in Requests :
    MultiLineCase(r)
      => /\ response[r].status = 200
         /\ ResultOf(r).text = Contributions(Lines(reply[r].body))
         /\ ResultOf(r).raw_lines =
              [i \in 1..Len(Lines(reply[r].body)) |-> Text(Lines(reply[r].body)[i])]

C5_Witness ==
  \E r \in Requests :
    /\ MultiLineCase(r)
    /\ reply[r].body =
         <<"LB", "KR", "SA", "RB", "NL", "XX", "NL", "SP", "LB", "KR", "SB", "RB", "SP">>
    /\ ResultOf(r).text = "Hello"
    /\ ResultOf(r).raw_lines =
         <<"{\"response\":\"Hel\"}", "plain", "{\"response\":\"lo\"}">>

\* C6: for a 200 body of at most one non-empty trimmed line the whole body is
\* parsed as one JSON document: the parsed value is returned as it is, and
\* a body that does not parse gives exactly {text: <the raw body text>}.
C6_SingleDocument ==
  \A r \in Requests :
    SingleLineCase(r)
      => /\ response[r].status = 200
         /\ IF JsonLoads(reply[r].body).ok
            THEN ResultOf(r) = JsonLoads(reply[r].body).val
            ELSE ResultOf(r) = [text |-> Text(reply[r].body)]

C6_Witness ==
  \E r \in Requests :
    /\ SingleLineCase(r)
    /\ reply[r].body = <<"LB", "KR", "SA", "RB", "NL">>
    /\ ResultOf(r) = JDict(<<[k |-> "response", v |-> JStr("Hel")]>>)

\* Neither the whole body nor any of its lines parses as JSON.
NothingParses(body) ==
  /\ ~JsonLoads(body).ok
  /\ \A i \in 1..Len(Lines(body)) : ~JsonLoads(Lines(body)[i]).ok

\* C7 as stated: every 200 body is normalized without an error, and when
\* nothing in the body parses as JSON the result's text is the raw body
\* text.
C7_RawTextWhenNothingParses ==
  \A r \in Requests :
    GotSuccess(r)
      => /\ response[r].status = 200
         /\ NothingParses(reply[r].body) => ResultOf(r).text = Text(reply[r].body)

\* C7 amended: every 200 body is normalized without an error; when nothing
\* in the body parses as JSON, a body of at most one non-empty trimmed line
\* gives {text: <the raw body text>}, and a body of several lines gives an
\* empty text with the trimmed lines in raw_lines and no last.
C7_DegradesWithoutError ==
  \A r \in Requests :
    GotSuccess(r)
      => /\ response[r].status = 200
         /\ NothingParses(reply[r].body)
              => IF Len(Lines(reply[r].body)) <= 1
                 THEN ResultOf(r) = [text |-> Text(reply[r].body)]
                 ELSE ResultOf(r) =
                        [text |-> "",
                         raw_lines |-> [i \in 1..Len(Lines(reply[r].body)) |->
                                          Text(Lines(reply[r].body)[i])]]

C7_Witness ==
  \E r \in Requests :
    /\ GotSuccess(r)
    /\ reply[r].body = <<"XX", "NL", "LB", "KR">>
    /\ ResultOf(r) = [text |-> "", raw_lines |-> <<"plain", "{\"response\":">>]

\* The lines that parse, in order.
RECURSIVE ParsedValues(_)
ParsedValues(ls) ==
  IF ls = <<>> THEN <<>>
  ELSE (IF JsonLoads(Head(ls)).ok THEN <<JsonLoads(Head(ls)).val>> ELSE <<>>)
       \o ParsedValues(Tail(ls))

\* C8: in the multi-line case `last` is present exactly when at least one
\* line parsed as JSON, and is then the last parsed value in line order.
C8_LastPresentIffParsed ==
  \A r \in Requests :
    MultiLineCase(r)
      => LET parsed == ParsedValues(Lines(reply[r].body)) IN
         /\ ("last" \in DOMAIN ResultOf(r)) <=> (parsed # <<>>)
         /\ parsed # <<>> => ResultOf(r).last = parsed[Len(parsed)]

\* The payload of the request's POST.
PayloadOf(r) == posted[r][1].json

\* C9: the payload of an accepted request has the request's model and
\* exactly one of prompt and messages: the messages as they are, without
\* prompt, when messages are supplied; else the template around the prompt,
\* without messages.  max_tokens is there only when the request's is truthy,
\* temperature never.
C9_Payload ==
  \A r \in Requests :
    posted[r] # <<>>
      => LET pl == PayloadOf(r)
             rq == req[r]
             chat == rq.messages # None /\ rq.messages # Some(<<>>)
         IN /\ "model" \in DOMAIN pl /\ pl["model"] = rq.model
            /\ ("prompt" \in DOMAIN pl) # ("messages" \in DOMAIN pl)
            /\ chat => ("messages" \in DOMAIN pl /\ pl["messages"] = rq.messages[1])
            /\ ~chat => /\ "prompt" \in DOMAIN pl
                        /\ pl["prompt"] = TemplateHead \o rq.prompt[1] \o TemplateTail
            /\ ("max_tokens" \in DOMAIN pl)
                 <=> (rq.max_tokens # None /\ rq.max_tokens # Some(0))
            /\ "max_tokens" \in DOMAIN pl => pl["max_tokens"] = rq.max_tokens[1]
            /\ "temperature" \notin DOMAIN pl

C9_Witness ==
  \E r \in Requests :
    /\ posted[r] # <<>>
    /\ req[r].prompt = Some("Hello")
    /\ req[r].messages = Some(<<UserMessage>>)
    /\ req[r].max_tokens = Some(0)
    /\ req[r].temperature = DefaultTemperature
    /\ DOMAIN PayloadOf(r) = {"model", "messages"}
    /\ PayloadOf(r)["messages"] = <<UserMessage>>

\* The request's own state.
Own(r) == <<pc[r], req[r], posted[r], reply[r], response[r]>>

C10_Outcomes ==
  /\ \A r \in Requests :
       /\ Len(posted[r]) <= 1
       /\ pc[r] # "idle" =>
            (Len(posted[r]) = 1
               <=> ~(Absent(req[r].prompt, "") /\ Absent(req[r].messages, <<>>)))
       /\ ~Answered(r) => response[r] = NoResponse
       /\ Answered(r) =>
            /\ response[r].status \in {200, 400, 502, 503}
            /\ (response[r].status = 400) <=> (posted[r] = <<>>)
            /\ reply[r].kind \in RequestErrors => response[r].status \in {502, 503}
  /\ \A r1, r2 \in Requests :
       (Answered(r1) /\ Answered(r2) /\ req[r1] = req[r2] /\ reply[r1] = reply[r2])
         => response[r1] = response[r2]

C10_Steps ==
  /\ \A r \in Requests : Answered(r) => Own(r)' = Own(r)
  /\ \A r1, r2 \in Requests :
       (Own(r1)' # Own(r1) /\ Own(r2)' # Own(r2)) => r1 = r2

\* C10: under any interleaving each request makes at most one POST (one if
\* accepted, none if rejected), a failed POST is not retried and is answered
\* as that request's error, each request gets one final outcome among 200,
\* 400, 502 and 503, and the outcome is a function of the request's own
\* input and its own upstream reply.
C10_Independent == []C10_Outcomes /\ [][C10_Steps]_vars

C10_Witness ==
  \E r1, r2 \in Requests :
    /\ Answered(r1) /\ Answered(r2)
    /\ req[r1] = req[r2]
    /\ response[r1].status = 200
    /\ response[r2].status = 503
    /\ Len(posted[r1]) = 1 /\ Len(posted[r2]) = 1
====
